---- MODULE Spec2Model ----
(***************************************************************************)
(* Model of src/index.js of create-discord-bot: an interactive scaffolder  *)
(* that asks for an application name, then either updates an existing      *)
(* directory (after confirmation) or creates a new one from the bundled    *)
(* template in six ordered steps.  The file system outlives one            *)
(* invocation, so the model runs the program several times over it.        *)
(***************************************************************************)
EXTENDS Integers, Sequences, FiniteSets, TLC

\* ------------------------------------------------------------------ bounds
MaxRuns == 2          \* invocations of the program over the same file system
MaxRejections == 1    \* rejected candidates per name prompt

\* ------------------------------------------------------ external inputs
\* Candidate names a user may type, with the verdict of
\* validate-npm-package-name on each of them.
ValidNames == {"bot", "my-bot"}
InvalidNames == {"node_modules", ".bot", "MyBot"}
CandidateNames == ValidNames \cup InvalidNames

Undefined == <<"undefined">>

validateName(n) ==
  CASE n = "node_modules"
                   -> [validForNewPackages |-> FALSE, validForOldPackages |-> FALSE,
                       errors |-> <<"node_modules is a blacklisted name">>,
                       warnings |-> Undefined]
    [] n = ".bot"  -> [validForNewPackages |-> FALSE, validForOldPackages |-> FALSE,
                       errors |-> <<"name cannot start with a period">>,
                       warnings |-> Undefined]
    [] n = "MyBot" -> [validForNewPackages |-> FALSE, validForOldPackages |-> TRUE,
                       errors |-> Undefined,
                       warnings |-> <<"name can no longer contain capital letters">>]
    [] OTHER       -> [validForNewPackages |-> TRUE, validForOldPackages |-> TRUE,
                       errors |-> Undefined, warnings |-> Undefined]

Tokens == {"DISCORD_BOT_TOKEN_PLACEHOLDER", "tok"}
ConfirmAnswers == {"true", "false", "undefined"}
Argvs == {<<>>, <<"--dry-run">>, <<"--verbose">>}

\* JavaScript truthiness of a confirm answer
Truthy(v) == v = "true"

\* ------------------------------------------------------------ the template
UtilityName == "create-discord-bot"
UtilityVersion == "1.0.0"
utilityNameAndVersion == <<UtilityName, " v", UtilityVersion>>

appPackage ==
  [name |-> "discord-bot", version |-> "0.1.0", description |-> <<"Template bot">>,
   scripts |-> "start: node src/index.js", dependencies |-> "discord.js"]

Absent == [absent |-> TRUE]
Text(s) == [text |-> s]
Json(p) == [json |-> p, indent |-> 2, newline |-> TRUE]

CoreFiles == {"src/core/client.js"}
EntryFile == "src/index.js"
TemplateFiles == {"package.json", "src/commands/ping.js", EntryFile} \cup CoreFiles
FileKeys == TemplateFiles \cup
            {".gitignore", ".env", "node_modules", "src/core/local.js", "notes.txt"}

appDir ==
  [f \in TemplateFiles |->
     IF f = "package.json" THEN Json(appPackage) ELSE Text(<<"template ", f>>)]

NoDir == [nodir |-> TRUE]
EmptyDir == [f \in FileKeys |-> Absent]

\* A directory left by an earlier, older generation of the tool and edited by
\* its user: stale core files, the user's own files, the user's manifest.
StaleDir ==
  [f \in FileKeys |->
     CASE f \in CoreFiles \cup {EntryFile} -> Text(<<"old ", f>>)
       [] f = "package.json" -> Json([appPackage EXCEPT !.name = "mine",
                                                          !.version = "0.0.9"])
       [] f = ".env" -> Text(<<"DISCORD_BOT_TOKEN=", "secret">>)
       [] f \in {"src/core/local.js", "notes.txt"} -> Text(<<"user ", f>>)
       [] OTHER -> Absent]

None == "none"
NoCurl == [threw |-> FALSE, stdout |-> "<not called>"]

VARIABLES
  run,          \* number of the current invocation
  argv,         \* process.argv after the node binary and the script
  pc,           \* position of the run
  rejections,   \* candidates the name prompt has rejected in this run
  lastCandidate,\* the candidate submitted last to the name prompt
  promptError,  \* what the validate callback returned last
  name, isUpdate, update, token,
  steps, stepIdx, isDryRun,
  fs, cwd,
  printed,      \* console.log output of this run
  stderr,       \* console.error output of this run
  ranActions,   \* ids of the step actions called in this run, in order
  installerCalls, lookupCalls,
  curlResult,   \* what the identity lookup's curl gave in this run
  failedStep,   \* index of the step whose action threw, 0 if none
  abortCause,
  exitCode,
  fsAtStart,    \* history: the file system when this run started
  failedCreate  \* history: names whose create run, in an earlier invocation,
                \* failed after the directory was made

vars == <<run, argv, pc, rejections, lastCandidate, promptError, name, isUpdate,
          update, token, steps, stepIdx, isDryRun, fs, cwd, printed, stderr,
          ranActions, installerCalls, lookupCalls, curlResult, failedStep,
          abortCause, exitCode, fsAtStart, failedCreate>>

Banner == <<"This utility will walk you through creating a ", UtilityName,
            " application.">>

Init ==
  /\ run = 1
  /\ argv \in Argvs
  /\ pc = "CollectingName"
  /\ rejections = 0
  /\ lastCandidate = None
  /\ promptError = None
  /\ name = None /\ isUpdate = FALSE /\ update = None /\ token = None
  /\ steps = <<>> /\ stepIdx = 0 /\ isDryRun = FALSE
  /\ fs \in {f \in [CandidateNames -> {NoDir, StaleDir}] :
                \A n \in InvalidNames : f[n] = NoDir}
  /\ cwd = "."
  /\ printed = <<Banner>>
  /\ stderr = <<>>
  /\ ranActions = <<>>
  /\ installerCalls = 0 /\ lookupCalls = 0
  /\ curlResult = NoCurl
  /\ failedStep = 0
  /\ abortCause = None
  /\ exitCode = None
  /\ fsAtStart = fs
  /\ failedCreate = {}

\* ------------------------------------------------------- the name prompt
\* errors || warnings
OrElse(a, b) == IF a # Undefined THEN a ELSE b

\* variant: a callback that consults validForOldPackages instead
ValidateCallbackOld(n) ==
  LET v == validateName(n)
  IN IF v.validForOldPackages THEN <<"true">>
     ELSE <<"Error: ", OrElse(v.errors, v.warnings), ".">>

\* validate: validForNewPackages || `Error: ${(errors || warnings).join(", ")}.`
ValidateCallback(n) ==
  LET v == validateName(n)
  IN IF v.validForNewPackages THEN <<"true">>
     ELSE <<"Error: ", OrElse(v.errors, v.warnings), ".">>

Accepted(r) == r = <<"true">>

\* fs.existsSync(path.resolve(name))
\* variant: a resolver that never sees the directory
ExistsSyncNever(n) == FALSE

existsSync(n) == fs[n] # NoDir

\* variant: an update branch that does not ask for confirmation
NextPromptSkipConfirm(upd) == IF upd THEN "Planning" ELSE "CollectingCredential"

NextPrompt(upd) == IF upd THEN "ConfirmingUpdate" ELSE "CollectingCredential"

\* The user submits a candidate to the name prompt.  A rejected candidate
\* keeps the prompt open; an accepted one resolves the promise and the
\* then-handler runs up to its next prompt.
SubmitName(candidate) ==
  /\ pc = "CollectingName"
  /\ lastCandidate' = candidate
  /\ promptError' = ValidateCallback(candidate)
  /\ IF Accepted(ValidateCallback(candidate))
     THEN /\ name' = candidate
          /\ isUpdate' = existsSync(candidate)
          /\ pc' = NextPrompt(existsSync(candidate))
          /\ UNCHANGED rejections
     ELSE /\ rejections < MaxRejections
          /\ rejections' = rejections + 1
          /\ UNCHANGED <<name, isUpdate, pc>>
  /\ UNCHANGED <<run, argv, update, token, steps, stepIdx, isDryRun, fs, cwd,
                 printed, stderr, ranActions, installerCalls, lookupCalls, curlResult,
                 failedStep, abortCause, exitCode, fsAtStart, failedCreate>>

\* ------------------------------------------------ leaving the run by throw
\* A throw inside the then-handler rejects the promise; .catch(console.error)
\* prints it and the process ends with nothing left to do.
\* variant: a runner that reports the error and goes on with the next step
ThrowContinue(err, cause, idx) ==
  /\ pc' = "Executing"
  /\ stderr' = Append(stderr, err)
  /\ abortCause' = cause
  /\ failedStep' = idx
  /\ exitCode' = exitCode
  /\ stepIdx' = stepIdx + 1

Throw(err, cause, idx) ==
  /\ pc' = "Aborted"
  /\ stderr' = Append(stderr, err)
  /\ abortCause' = cause
  /\ failedStep' = idx
  /\ exitCode' = 0
  /\ UNCHANGED <<stepIdx>>

\* ------------------------------------------------ the update confirmation
\* variant: a check that takes only an explicit false as a decline
DeclinedOnlyFalse(u) == u = "false"

\* if (!update)
Declined(u) == ~Truthy(u)

AnswerUpdate(ans) ==
  /\ pc = "ConfirmingUpdate"
  /\ update' = ans
  /\ IF Declined(ans)
     THEN /\ printed' = Append(printed, <<>>)
          /\ Throw(<<"Quitting...">>, "declined", 0)
     ELSE /\ pc' = "Planning"
          /\ UNCHANGED <<printed, stderr, abortCause, failedStep, exitCode, stepIdx>>
  /\ UNCHANGED <<run, argv, rejections, lastCandidate, promptError, name,
                 isUpdate, token, steps, isDryRun, fs, cwd, ranActions,
                 installerCalls, lookupCalls, curlResult, fsAtStart, failedCreate>>

\* ------------------------------------------------------ the token prompt
AnswerToken(tok) ==
  /\ pc = "CollectingCredential"
  /\ token' = tok
  /\ pc' = "Planning"
  /\ UNCHANGED <<run, argv, rejections, lastCandidate, promptError, name,
                 isUpdate, update, steps, stepIdx, isDryRun, fs, cwd, printed,
                 stderr, ranActions, installerCalls, lookupCalls, curlResult, failedStep,
                 abortCause, exitCode, fsAtStart, failedCreate>>

\* ------------------------------------------------------------- the plans
Step(id, message, ignoreDry) == [id |-> id, message |-> message, ignoreDry |-> ignoreDry]

UpdatePlan(n) ==
  << Step("update", <<"Updating core files in '", n, "'...">>, FALSE) >>

CreatePlan(n) ==
  << Step("mkdir", <<"Creating directory '", n, "'...">>, FALSE),
     Step("boilerplate", <<"Creating boilerplate...">>, FALSE),
     Step("package", <<"Updating package.json...">>, FALSE),
     Step("env", <<"Writing .env...">>, FALSE),
     Step("install", <<"Installing modules...">>, FALSE),
     Step("invite", <<"\nGenerating bot invite link...">>, TRUE) >>

\* args[0] === "--dry-run"
IsDryRunArg(a) == Len(a) >= 1 /\ a[1] = "--dry-run"

Plan ==
  /\ pc = "Planning"
  /\ steps' = IF isUpdate THEN UpdatePlan(name) ELSE CreatePlan(name)
  /\ isDryRun' = IsDryRunArg(argv)
  /\ printed' = Append(printed, <<>>)
  /\ stepIdx' = 1
  /\ pc' = "Executing"
  /\ UNCHANGED <<run, argv, rejections, lastCandidate, promptError, name,
                 isUpdate, update, token, fs, cwd, stderr, ranActions,
                 installerCalls, lookupCalls, curlResult, failedStep, abortCause, exitCode,
                 fsAtStart, failedCreate>>

\* -------------------------------------------------- file-system operations
DirOrEmpty(g, d) == IF g[d] = NoDir THEN EmptyDir ELSE g[d]

\* fs.copySync(src, dest) restricted to the files `files` of the template:
\* creates what is missing, overwrites what exists, leaves the rest alone.
CopySync(g, files, d) ==
  [g EXCEPT ![d] = [f \in FileKeys |->
                      IF f \in files THEN appDir[f] ELSE DirOrEmpty(g, d)[f]]]

\* fs.writeFileSync(path.join(dir, f), content); the directory must exist
WriteFileSync(g, d, f, content) == [g EXCEPT ![d] = [g[d] EXCEPT ![f] = content]]

Outcome(threw, err, g, c, inst, look, out) ==
  [threw |-> threw, err |-> err, fs |-> g, cwd |-> c, inst |-> inst,
   look |-> look, out |-> out, curl |-> curlResult]

Ok(g) == Outcome(FALSE, <<>>, g, cwd, 0, 0, <<>>)
Fail(err, g) == Outcome(TRUE, err, g, cwd, 0, 0, <<>>)

\* action of the update step
\* variant: an update that copies the whole template
UpdateSourcesAll == <<TemplateFiles, {}>>

\* the two copies of the update step: src/core, then src/index.js
UpdateSources == <<CoreFiles, {EntryFile}>>

ActUpdate ==
  LET core == CopySync(fs, UpdateSources[1], name)
      both == CopySync(core, UpdateSources[2], name)
  IN { Fail(<<"EACCES: copy src/core">>, fs),
       Fail(<<"EACCES: copy src/index.js">>, core),
       Ok(both) }

\* fs.mkdirSync(dir): not recursive, fails on an existing path
ActMkdir ==
  IF existsSync(name)
  THEN { Fail(<<"EEXIST: mkdir">>, fs) }
  ELSE { Fail(<<"EACCES: mkdir">>, fs),
         Ok([fs EXCEPT ![name] = EmptyDir]) }

GitIgnore == Text(<<"node_modules/\n", ".env\n">>)

ActBoilerplate ==
  LET copied == CopySync(fs, TemplateFiles, name)
  IN { Fail(<<"EACCES: copy">>, fs),
       Fail(<<"EACCES: write .gitignore">>, copied),
       Ok(WriteFileSync(copied, name, ".gitignore", GitIgnore)) }

Description == <<"Generated by ", utilityNameAndVersion, ".">>

\* variant: a manifest rewrite that keeps the template's name
NewPackageKeepName(n) == [appPackage EXCEPT !.description = Description]

\* { ...appPackage, name, description }
NewPackage(n) == [appPackage EXCEPT !.name = n, !.description = Description]

ActPackage ==
  IF ~existsSync(name)
  THEN { Fail(<<"ENOENT: write package.json">>, fs) }
  ELSE { Fail(<<"EACCES: write package.json">>, fs),
         Ok(WriteFileSync(fs, name, "package.json", Json(NewPackage(name)))) }

EnvFile(tok) == Text(<<"DISCORD_BOT_TOKEN=", tok>>)

ActEnv ==
  IF ~existsSync(name)
  THEN { Fail(<<"ENOENT: write .env">>, fs) }
  ELSE { Fail(<<"EACCES: write .env">>, fs),
         Ok(WriteFileSync(fs, name, ".env", EnvFile(token))) }

\* process.chdir(dir); execSync("npm ci")
ActInstall ==
  IF ~existsSync(name)
  THEN { Fail(<<"ENOENT: chdir">>, fs) }
  ELSE { Outcome(TRUE, <<"Command failed: npm ci">>, fs, name, 1, 0, <<>>),
         Outcome(FALSE, <<>>,
                 WriteFileSync(fs, name, "node_modules", Text(<<"installed">>)),
                 name, 1, 0, <<>>) }
\* ------------------------------------------------------ the identity lookup
JsNull == "<null>"
Thrown == "<thrown>"

\* What execSync(curl ...) can give: a throw (curl exits non-zero) or stdout.
CurlResults ==
  { [threw |-> TRUE, stdout |-> ""] } \cup
  { [threw |-> FALSE, stdout |-> r] :
      r \in {"<html>502</html>", "null", "{\"message\":\"401: Unauthorized\"}",
             "{\"id\":\"\"}", "{\"id\":\"4242\"}"} }

\* JSON.parse on the responses above
JSONParse(r) ==
  CASE r = "null" -> [threw |-> FALSE, isNull |-> TRUE, id |-> ""]
    [] r = "{\"message\":\"401: Unauthorized\"}"
                  -> [threw |-> FALSE, isNull |-> FALSE, id |-> ""]
    [] r = "{\"id\":\"\"}" -> [threw |-> FALSE, isNull |-> FALSE, id |-> ""]
    [] r = "{\"id\":\"4242\"}" -> [threw |-> FALSE, isNull |-> FALSE, id |-> "4242"]
    [] OTHER -> [threw |-> TRUE, isNull |-> FALSE, id |-> ""]

\* the body of the try block: parsedResponse.id || null, or a throw
TryBody(curl) ==
  IF curl.threw THEN Thrown
  ELSE LET parsedResponse == JSONParse(curl.stdout)
       IN IF parsedResponse.threw \/ parsedResponse.isNull THEN Thrown
          ELSE IF parsedResponse.id # "" THEN parsedResponse.id ELSE JsNull

\* variant: the lookup without its catch clause
getApplicationIdNoCatch(curl) == TryBody(curl)

getApplicationId(curl) == IF TryBody(curl) = Thrown THEN JsNull ELSE TryBody(curl)

InviteUrl(id) ==
  <<"Invite your bot: https://discord.com/oauth2/authorize?scope=bot&client_id=", id>>
Fallback == <<"The given bot token was invalid so no invite link was generated.">>

ActInvite ==
  { LET applicationId == getApplicationId(curl)
    IN [ IF applicationId = Thrown
         THEN Outcome(TRUE, <<"uncaught in getApplicationId">>, fs, cwd, 0, 1, <<>>)
         ELSE Outcome(FALSE, <<>>, fs, cwd, 0, 1,
                      << IF applicationId # JsNull THEN InviteUrl(applicationId)
                         ELSE Fallback >>)
         EXCEPT !.curl = curl ]
    : curl \in CurlResults }

ActionOutcomes(id) ==
  CASE id = "update" -> ActUpdate
    [] id = "mkdir" -> ActMkdir
    [] id = "boilerplate" -> ActBoilerplate
    [] id = "package" -> ActPackage
    [] id = "env" -> ActEnv
    [] id = "install" -> ActInstall
    [] id = "invite" -> ActInvite

\* ------------------------------------------------------- the step runner
\* variant: a runner that ignores the dry-run flag
ShouldRunAlways(ignoreDry, dry) == TRUE

\* if (ignoreDry || !isDryRun)
ShouldRun(ignoreDry, dry) == ignoreDry \/ ~dry

\* One iteration of steps.forEach on a step whose action is called.
RunStep(id) ==
  /\ pc = "Executing"
  /\ stepIdx <= Len(steps)
  /\ steps[stepIdx].id = id
  /\ ShouldRun(steps[stepIdx].ignoreDry, isDryRun)
  /\ \E o \in ActionOutcomes(id) :
       /\ printed' = Append(printed, steps[stepIdx].message) \o o.out
       /\ ranActions' = Append(ranActions, id)
       /\ fs' = o.fs
       /\ cwd' = o.cwd
       /\ installerCalls' = installerCalls + o.inst
       /\ lookupCalls' = lookupCalls + o.look
       /\ curlResult' = o.curl
       /\ IF o.threw
          THEN Throw(o.err, "step", stepIdx)
          ELSE /\ stepIdx' = stepIdx + 1
               /\ UNCHANGED <<pc, stderr, abortCause, failedStep, exitCode>>
  /\ UNCHANGED <<run, argv, rejections, lastCandidate, promptError, name,
                 isUpdate, update, token, steps, isDryRun, fsAtStart,
                 failedCreate>>

\* One iteration on a step that the dry run skips: only the message.
SkipStep ==
  /\ pc = "Executing"
  /\ stepIdx <= Len(steps)
  /\ ~ShouldRun(steps[stepIdx].ignoreDry, isDryRun)
  /\ printed' = Append(printed, steps[stepIdx].message)
  /\ stepIdx' = stepIdx + 1
  /\ UNCHANGED <<run, argv, pc, rejections, lastCandidate, promptError, name,
                 isUpdate, update, token, steps, isDryRun, fs, cwd, stderr,
                 ranActions, installerCalls, lookupCalls, curlResult, failedStep,
                 abortCause, exitCode, fsAtStart, failedCreate>>

DoneMessage(n) == <<"Done!\n\nStart by running:\n\t$ cd ", n, "/\n\t$ npm start">>

\* After forEach: the closing summary and process.exit(0).
Finish ==
  /\ pc = "Executing"
  /\ stepIdx > Len(steps)
  /\ printed' = printed \o << <<>>, DoneMessage(name) >>
  /\ exitCode' = 0
  /\ pc' = "Done"
  /\ UNCHANGED <<run, argv, rejections, lastCandidate, promptError, name,
                 isUpdate, update, token, steps, stepIdx, isDryRun, fs, cwd,
                 stderr, ranActions, installerCalls, lookupCalls, curlResult, failedStep,
                 abortCause, fsAtStart, failedCreate>>

\* The program is started again, in the same working directory, over the
\* file system the earlier runs left.
Restart ==
  /\ pc \in {"Done", "Aborted"}
  /\ run < MaxRuns
  /\ run' = run + 1
  /\ argv' \in Argvs
  /\ pc' = "CollectingName"
  /\ rejections' = 0
  /\ lastCandidate' = None
  /\ promptError' = None
  /\ name' = None /\ isUpdate' = FALSE /\ update' = None /\ token' = None
  /\ steps' = <<>> /\ stepIdx' = 0 /\ isDryRun' = FALSE
  /\ cwd' = "."
  /\ printed' = <<Banner>>
  /\ stderr' = <<>>
  /\ ranActions' = <<>>
  /\ installerCalls' = 0 /\ lookupCalls' = 0
  /\ curlResult' = NoCurl
  /\ failedStep' = 0
  /\ abortCause' = None
  /\ exitCode' = None
  /\ fsAtStart' = fs
  /\ failedCreate' = IF pc = "Aborted" /\ abortCause = "step" /\ ~isUpdate
                        /\ fs[name] # NoDir
                     THEN failedCreate \cup {name}
                     ELSE failedCreate
  /\ UNCHANGED fs

Next ==
  \/ \E c \in CandidateNames : SubmitName(c)
  \/ \E a \in ConfirmAnswers : AnswerUpdate(a)
  \/ \E t \in Tokens : AnswerToken(t)
  \/ Plan
  \/ RunStep("update")
  \/ RunStep("mkdir")
  \/ RunStep("boilerplate")
  \/ RunStep("package")
  \/ RunStep("env")
  \/ RunStep("install")
  \/ RunStep("invite")
  \/ SkipStep
  \/ Finish
  \/ Restart

Spec == Init /\ [][Next]_vars

\* =================================================================== claims
Started == pc \in {"Executing", "Done", "Aborted"} /\ steps # <<>>
StepMessages(k) == [i \in 1..k |-> steps[i].message]
IsInviteLine(l) == l = Fallback \/ \E id \in {"4242"} : l = InviteUrl(id)

\* C1: with --dry-run as first argument and a target that does not exist, the
\* run prints the message of every step of the create plan, changes nothing
\* on disk, keeps its working directory, never calls the installer, and
\* still runs the identity lookup, printing the invite link or the fallback.
C1_DryRunCreate ==
  (Started /\ IsDryRunArg(argv) /\ ~isUpdate) =>
     /\ fs = fsAtStart
     /\ cwd = "."
     /\ installerCalls = 0
     /\ \A i \in 1..Len(ranActions) : ranActions[i] = "invite"
     /\ pc # "Aborted"
     /\ pc = "Done" =>
          /\ Len(steps) = 6
          /\ Len(printed) = 11
          /\ \A i \in 1..6 : printed[2 + i] = steps[i].message
          /\ ranActions = <<"invite">>
          /\ lookupCalls = 1
          /\ IsInviteLine(printed[9])

C1_Witness ==
  /\ pc = "Done" /\ IsDryRunArg(argv) /\ ~isUpdate
  /\ lookupCalls = 1 /\ printed[9] = InviteUrl("4242")
  /\ fs[name] = NoDir

\* C2: when the target exists and the answer to the confirmation is anything
\* but affirmative, the run aborts with no plan built and no step run: the
\* file system is as it was and neither installer nor lookup is called.
C2_DeclineChangesNothing ==
  (isUpdate /\ update # None /\ update # "true") =>
     /\ pc = "Aborted"
     /\ abortCause = "declined"
     /\ steps = <<>>
     /\ ranActions = <<>>
     /\ fs = fsAtStart
     /\ cwd = "."
     /\ installerCalls = 0 /\ lookupCalls = 0
     /\ printed = <<Banner, <<>> >>
     /\ stderr = << <<"Quitting...">> >>

C2_Witness ==
  /\ pc = "Aborted" /\ isUpdate /\ update = "undefined"
  /\ fs[name] = StaleDir

\* C3: the exit status is 0 exactly when the run completes its plan and
\* prints the closing summary; an aborted run exits non-zero.
C3_ExitStatus ==
  pc \in {"Done", "Aborted"} =>
     (exitCode = 0 <=> (pc = "Done" /\ printed[Len(printed)] = DoneMessage(name)))

\* C4: when the action of a step throws, no later step has its message
\* printed or its action run and the closing summary is not printed; a
\* failing installer means the identity lookup is never attempted.
C4_FailureStopsPlan ==
  failedStep # 0 =>
     /\ pc = "Aborted"
     /\ failedStep \in 1..Len(steps)
     /\ printed = <<Banner, <<>> >> \o StepMessages(failedStep)
     /\ Len(ranActions) <= failedStep
     /\ \A i \in 1..Len(ranActions) : ranActions[i] = steps[i].id
     /\ steps[failedStep].id = "install" => lookupCalls = 0

C4_Witness ==
  /\ pc = "Aborted" /\ failedStep = 5 /\ steps[5].id = "install"
  /\ installerCalls = 1 /\ lookupCalls = 0

\* C5: whatever the identity lookup gives (transport error, unparsable
\* response, response without identifier, success), the invite-link step
\* does not throw: it prints the invite URL with the identifier on success
\* and the fallback otherwise, and the run goes on to the closing summary.
C5_LookupContained ==
  lookupCalls > 0 =>
     /\ lookupCalls = 1
     /\ failedStep = 0
     /\ pc \in {"Executing", "Done"}
     /\ printed[9] = IF ~curlResult.threw /\ curlResult.stdout = "{\"id\":\"4242\"}"
                     THEN InviteUrl("4242") ELSE Fallback
     /\ pc = "Executing" => ENABLED Finish

C5_Witness ==
  /\ pc = "Done" /\ ~isDryRun /\ lookupCalls = 1
  /\ curlResult.stdout = "null" /\ printed[9] = Fallback

\* C6: a create plan that completes without dry-run leaves the target
\* directory holding the copied template, a manifest with the supplied name,
\* the generator description and every other field of the template manifest,
\* the ignore-file with its two entries, and the secrets file with the
\* supplied credential.
C6_CreateResult ==
  (pc = "Done" /\ ~isUpdate /\ ~IsDryRunArg(argv)) =>
     /\ fs[name] # NoDir
     /\ \A f \in TemplateFiles \ {"package.json"} : fs[name][f] = appDir[f]
     /\ fs[name]["package.json"] # appDir["package.json"]
     /\ "json" \in DOMAIN fs[name]["package.json"]
     /\ LET m == fs[name]["package.json"].json
        IN /\ m.name = name
           /\ m.description =
                <<"Generated by ", <<"create-discord-bot", " v", "1.0.0">>, ".">>
           /\ m.version = appPackage.version
           /\ m.scripts = appPackage.scripts
           /\ m.dependencies = appPackage.dependencies
           /\ DOMAIN m = DOMAIN appPackage
     /\ fs[name][".gitignore"] = [text |-> <<"node_modules/\n", ".env\n">>]
     /\ fs[name][".env"] = [text |-> <<"DISCORD_BOT_TOKEN=", token>>]

C6_Witness ==
  /\ pc = "Done" /\ ~isUpdate /\ ~isDryRun
  /\ name = "my-bot" /\ token = "tok"
  /\ fsAtStart[name] = NoDir /\ fs[name] # NoDir

\* C7: a candidate the validator rejects keeps the name prompt open, does
\* not end the process, and the run never goes past the prompt with a name
\* the validator did not accept.
C7_RejectedNameReprompts ==
  /\ (lastCandidate # None /\ ~validateName(lastCandidate).validForNewPackages) =>
        /\ pc = "CollectingName"
        /\ exitCode = None
        /\ name = None
        /\ rejections >= 1
        /\ promptError[1] = "Error: "
  /\ pc # "CollectingName" =>
        /\ name = lastCandidate
        /\ validateName(name).validForNewPackages

C7_Witness ==
  /\ pc = "CollectingName" /\ rejections = 1 /\ lastCandidate = "MyBot"
  /\ promptError =
       <<"Error: ", <<"name can no longer contain capital letters">>, ".">>

\* C8: the update plan is one step that writes only the core subtree and the
\* entry-point file of the target from the template: manifest, ignore-file,
\* secrets file and every other file stay as they were, installer and lookup
\* are not called, and on a directory that is already updated it changes
\* nothing.
UpdatedFiles == CoreFiles \cup {EntryFile}
IsUpdated(d) == d # NoDir /\ \A f \in UpdatedFiles : d[f] = appDir[f]

C8_UpdateOnlyCore ==
  (isUpdate /\ Started) =>
     /\ Len(steps) = 1
     /\ \A i \in 1..Len(ranActions) : ranActions[i] = "update"
     /\ installerCalls = 0 /\ lookupCalls = 0
     /\ \A n \in CandidateNames :
          IF n = name
          THEN /\ fs[n] # NoDir
               /\ \A f \in FileKeys \ UpdatedFiles : fs[n][f] = fsAtStart[n][f]
          ELSE fs[n] = fsAtStart[n]
     /\ (pc = "Done" /\ ~IsDryRunArg(argv)) => IsUpdated(fs[name])
     /\ IsUpdated(fsAtStart[name]) => fs = fsAtStart

C8_Witness ==
  /\ run = 2 /\ pc = "Done" /\ isUpdate /\ ~isDryRun
  /\ ranActions = <<"update">>
  /\ IsUpdated(fsAtStart[name])
  /\ fs[name]["notes.txt"] # Absent
  /\ fs[name]["package.json"] = StaleDir["package.json"]

\* C9: a run goes CollectingName -> {ConfirmingUpdate | CollectingCredential}
\* -> Planning -> Executing -> Done | Aborted.  Aborted is entered only from
\* a declined confirmation or a failing step; Done and Aborted exclude each
\* other, and within a run nothing happens after either.
Edges ==
  { <<"CollectingName", "CollectingName">>,
    <<"CollectingName", "ConfirmingUpdate">>,
    <<"CollectingName", "CollectingCredential">>,
    <<"ConfirmingUpdate", "Planning">>,
    <<"ConfirmingUpdate", "Aborted">>,
    <<"CollectingCredential", "Planning">>,
    <<"Planning", "Executing">>,
    <<"Executing", "Executing">>,
    <<"Executing", "Done">>,
    <<"Executing", "Aborted">> }

C10_FailedCreateThenUpdate ==
  /\ (pc = "Aborted" /\ abortCause = "step" /\ ~isUpdate /\ failedStep >= 2) =>
        /\ fs[name] # NoDir
        /\ failedStep >= 3 =>
              /\ \A f \in TemplateFiles \ {"package.json"} : fs[name][f] = appDir[f]
              /\ fs[name][".gitignore"] = GitIgnore
        /\ failedStep >= 4 => fs[name]["package.json"] = Json(NewPackage(name))
        /\ failedStep >= 5 => fs[name][".env"] = EnvFile(token)
  /\ (name # None /\ name \in failedCreate) =>
        /\ isUpdate
        /\ fs[name] # NoDir
        /\ steps \in {<<>>, UpdatePlan(name)}
        /\ \A i \in 1..Len(ranActions) : ranActions[i] = "update"
        /\ installerCalls = 0 /\ lookupCalls = 0
        /\ \A f \in {"package.json", ".env", ".gitignore", "node_modules"} :
              fs[name][f] = fsAtStart[name][f]

C10_Witness ==
  /\ run = 2 /\ name \in failedCreate /\ pc = "Done" /\ isUpdate /\ ~isDryRun
  /\ ranActions = <<"update">>
  /\ fs[name][".env"] = Absent
  /\ fs[name]["package.json"] = appDir["package.json"]

====
